---------------------------- MODULE Spec2Model ----------------------------
(***************************************************************************)
(* A model of the Deep Q-Network training engine of src/DQN.py: the        *)
(* bounded experience buffer (ExperienceReplay) and the agent              *)
(* (DeepQNetwork) with its episode simulation, Bellman update, target      *)
(* network, training loop and persistence.                                 *)
(***************************************************************************)
EXTENDS Integers, Sequences, FiniteSets, TLC

VARIABLES
    buffer,         \* ExperienceReplay.buffer: the deque's records, oldest first
    capacity,       \* the deque's maxlen
    appended,       \* history: every record passed to append on this buffer, in order
    result,         \* the outcome of the last sample call (a batch or a raised error)
    cfg,            \* the constructor arguments kept by DeepQNetwork.__init__
    epsilon,        \* self.epsilon
    q_net,          \* the parameters of self.q_net
    q_target,       \* the parameters of self.q_target
    opt_iterations, \* the number of gradient steps the optimizer has applied
    online_hist,    \* history: every parameter value self.q_net has held
    disk,           \* what save(path) left under path
    pc,             \* the position of the running method
    caller,         \* who called the running simulate / _update_weights
    episode,        \* train: the loop variable
    episodes,       \* train: its argument
    sim,            \* the locals of simulate
    upd,            \* the locals of _update_weights
    env,            \* the environment: its state and the steps since reset
    ep_records,     \* history: what the environment saw in each step of the running simulate
    last_call       \* history: the last method called on the agent, with what it returned

replayVars == <<buffer, capacity, appended, result>>
agentVars  == <<cfg, epsilon, q_net, q_target, opt_iterations, online_hist, disk>>
ctlVars    == <<pc, caller, episode, episodes, sim, upd, env, ep_records, last_call>>
vars       == <<buffer, capacity, appended, result,
                cfg, epsilon, q_net, q_target, opt_iterations, online_hist, disk,
                pc, caller, episode, episodes, sim, upd, env, ep_records, last_call>>

---------------------------------------------------------------------------
(* Bounds of the model *)

\* largest capacity of a buffer built on its own
MaxCap == 3
\* largest number of append calls on a buffer built on its own
MaxAppends == 4
\* largest batch size asked of a buffer built on its own
MaxBatch == 4

Min(a, b) == IF a <= b THEN a ELSE b

---------------------------------------------------------------------------
(* Experience records (DQN.py 27-28) *)

Experience(s, a, r, d, s2) ==
    [state |-> s, action |-> a, reward |-> r, done |-> d, new_state |-> s2]

\* The records appended to a buffer built on its own: pairwise different in
\* every field but done, with the rewards 1, 2, 3, 4.
RecordPool ==
    { Experience(0, 0, 1, FALSE, 1), Experience(1, 1, 2, FALSE, 2),
      Experience(2, 2, 3, FALSE, 3), Experience(3, 3, 4, TRUE, 4) }

---------------------------------------------------------------------------
(* ExperienceReplay (DQN.py 31-85) *)

\* A deque that, once full, refuses the new record instead of discarding the
\* oldest one.
DequeAppend_KeepsOldest(buf, cap, x) ==
    IF Len(buf) >= cap THEN buf ELSE Append(buf, x)

\* collections.deque(maxlen=cap).append(x): at maxlen the leftmost element is
\* discarded; a deque of maxlen 0 stays empty.
DequeAppend(buf, cap, x) ==
    IF cap = 0 THEN << >>
    ELSE IF Len(buf) = cap THEN Append(Tail(buf), x)
    ELSE Append(buf, x)

\* np.random.choice(n, k, replace=False) raises ValueError when k > n
\* ("Cannot take a larger sample than population") and when k < 0.
ChoiceRaises(n, k) == k > n \/ k < 0

\* np.random.choice(n, k, replace=False) = permutation(n)[:k]: every sequence
\* of k pairwise distinct indices of 0 .. n-1 is a possible value.
Choice(n, k) ==
    { idx \in [1..k -> 0..(n - 1)] :
        \A i, j \in 1..k : i # j => idx[i] # idx[j] }

Raised(k, where) == [kind |-> "error", k |-> k, error |-> "ValueError", where |-> where]

\* Lines 81-85: the records at the drawn indices, unzipped into five arrays.
\* zip(*[]) yields nothing, so the five-way unpacking raises for an empty draw.
Gather(buf, k, idx) ==
    IF k = 0 THEN Raised(k, "unpack")
    ELSE [kind        |-> "batch",
          k           |-> k,
          indices     |-> idx,
          states      |-> [i \in 1..k |-> buf[idx[i] + 1].state],
          actions     |-> [i \in 1..k |-> buf[idx[i] + 1].action],
          rewards     |-> [i \in 1..k |-> buf[idx[i] + 1].reward],
          dones       |-> [i \in 1..k |-> buf[idx[i] + 1].done],
          next_states |-> [i \in 1..k |-> buf[idx[i] + 1].new_state]]

\* sample drawing with replacement (replace=True): any k indices, repeated or
\* not, and no complaint about k > len(buffer) on a buffer that holds records.
SampleOutcomes_WithReplacement(buf, k) ==
    IF k < 0 \/ (Len(buf) = 0 /\ k > 0) THEN { Raised(k, "choice") }
    ELSE { Gather(buf, k, idx) : idx \in [1..k -> 0..(Len(buf) - 1)] }

\* ExperienceReplay.sample(k): the set of its possible outcomes on buf.
SampleOutcomes(buf, k) ==
    IF ChoiceRaises(Len(buf), k) THEN { Raised(k, "choice") }
    ELSE { Gather(buf, k, idx) : idx \in Choice(Len(buf), k) }

NoResult == [kind |-> "none"]

---------------------------------------------------------------------------
(* The agent's variables while no agent method runs; used as they stand by *)
(* the specification of a buffer built on its own.                         *)

NoCfg  == [use_target |-> FALSE]
NoSim  == [active |-> FALSE, returned |-> FALSE, evaluation |-> FALSE, state |-> 0,
           done |-> FALSE, iters |-> 0, total_rwd |-> 0, states |-> << >>]
\* drawn and copied are history: the batches this call has drawn and the
\* iterations in which it copied the online parameters into the target
NoUpd  == [active |-> FALSE, gamma |-> 0, updates |-> 0, this_Q |-> << >>,
           next_Q |-> << >>, y |-> << >>, loss |-> [bound |-> FALSE],
           drawn |-> 0, copied |-> {}]
NoEnv  == [s |-> 0, t |-> 0]
\* trip follows the calls save, clear_experience, load made in a row: 1 after
\* save, 2 after the clear_experience that follows it, 3 after the load that
\* follows that, 0 otherwise
NoCall == [name |-> "none", trip |-> 0]
Called(name, trip) == [name |-> name, trip |-> trip]

ReplayOnlyRest ==
    /\ cfg = NoCfg /\ epsilon = 0 /\ q_net = 0 /\ q_target = 0
    /\ opt_iterations = 0 /\ online_hist = {0} /\ disk = [saved |-> FALSE]
    /\ pc = "idle" /\ caller = "api" /\ episode = 0 /\ episodes = 0
    /\ sim = NoSim /\ upd = NoUpd /\ env = NoEnv /\ ep_records = << >>
    /\ last_call = NoCall

\* ExperienceReplay(capacity)
ReplayInit ==
    /\ capacity \in 0..MaxCap
    /\ buffer = << >>
    /\ appended = << >>
    /\ result = NoResult
    /\ ReplayOnlyRest

\* replay.append(x)
ReplayAppend ==
    /\ Len(appended) < MaxAppends
    /\ \E x \in RecordPool :
        /\ buffer' = DequeAppend(buffer, capacity, x)
        /\ appended' = Append(appended, x)
    /\ result' = NoResult
    /\ UNCHANGED <<capacity, agentVars, ctlVars>>

\* replay.sample(k)
ReplaySample ==
    /\ \E k \in 0..MaxBatch :
        result' \in SampleOutcomes(buffer, k)
    /\ UNCHANGED <<buffer, capacity, appended, agentVars, ctlVars>>

ReplayNext == ReplayAppend \/ ReplaySample

SpecReplay == ReplayInit /\ [][ReplayNext]_vars

---------------------------------------------------------------------------
(* Claims about a buffer built on its own, checked under SpecReplay *)

Rewards(seq) == [i \in 1..Len(seq) |-> seq[i].reward]

\* C1: after n append calls on a buffer of capacity C the length is
\* min(n, C), never above C, and the contents are exactly the last min(n, C)
\* appended records in insertion order; so an append on a full buffer evicts
\* the oldest record and no other.
C1_BufferHoldsLastAppended ==
    /\ Len(buffer) = Min(Len(appended), capacity)
    /\ Len(buffer) <= capacity
    /\ buffer = SubSeq(appended, Len(appended) - Min(Len(appended), capacity) + 1,
                       Len(appended))

\* The scenario of the specification: capacity 3, rewards 1, 2, 3, 4 appended
\* in order, the buffer then holds the rewards 2, 3, 4.
C1_Witness ==
    /\ capacity = 3
    /\ Rewards(appended) = <<1, 2, 3, 4>>
    /\ Rewards(buffer) = <<2, 3, 4>>

\* What C2 asks of a sample outcome r drawn from buf: k records at k
\* pairwise distinct indices, the five arrays parallel.
IsParallelBatch(r, buf) ==
    /\ r.kind = "batch"
    /\ DOMAIN r.indices = 1..r.k
    /\ \A i, j \in 1..r.k : i # j => r.indices[i] # r.indices[j]
    /\ \A i \in 1..r.k :
        /\ r.indices[i] \in 0..(Len(buf) - 1)
        /\ Experience(r.states[i], r.actions[i], r.rewards[i], r.dones[i],
                      r.next_states[i]) = buf[r.indices[i] + 1]
    /\ DOMAIN r.states = 1..r.k /\ DOMAIN r.actions = 1..r.k
    /\ DOMAIN r.rewards = 1..r.k /\ DOMAIN r.dones = 1..r.k
    /\ DOMAIN r.next_states = 1..r.k

\* C2: sample(k) with k <= len(buffer) returns exactly k records taken at k
\* pairwise distinct buffer indices, the five returned arrays parallel and
\* in the order the indices were drawn.
C2_SampleWithinLengthReturnsBatch ==
    (result.kind # "none" /\ result.k <= Len(buffer))
        => IsParallelBatch(result, buffer)

\* The part of C2 the code keeps: the same for 1 <= k <= len(buffer).
C2_NonEmptySampleReturnsBatch ==
    (result.kind # "none" /\ result.k >= 1 /\ result.k <= Len(buffer))
        => IsParallelBatch(result, buffer)

\* C3: sample(k) with k > len(buffer) fails with the insufficient-data error
\* (raised by the draw itself), returns no batch, and leaves the buffer
\* unchanged.
C3_OversizedSampleFails ==
    [][ (result'.kind # "none" /\ result'.k > Len(buffer))
            => /\ result'.kind = "error"
               /\ result'.where = "choice"
               /\ buffer' = buffer
               /\ capacity' = capacity ]_vars

C3_Witness ==
    /\ result.kind = "error"
    /\ Len(buffer) = 2
    /\ result.k = 3

\* replay.sample(k) drawing exactly the indices idx
SampleDraws(k, idx) ==
    /\ result' = Gather(buffer, k, idx)
    /\ result'.kind = "batch"
    /\ result' \in SampleOutcomes(buffer, k)
    /\ UNCHANGED <<buffer, capacity, appended, agentVars, ctlVars>>

\* C4: no sample call changes the buffer, and sampling has no exhaustion:
\* whatever was sampled before, every k distinct indices of the current
\* buffer are a possible result of the next sample(k).
C4_SampleIsPureAndNeverExhausted ==
    /\ [][ result'.kind # "none" => (buffer' = buffer /\ capacity' = capacity) ]_vars
    /\ [](\A k \in 0..Len(buffer) :
            \A idx \in Choice(Len(buffer), k) : ENABLED SampleDraws(k, idx))

\* The part of C4 the code keeps: the same for 1 <= k <= len(buffer), and
\* no sample call changes the buffer.
C4_EveryNonEmptyDrawStaysPossible ==
    \A k \in 1..Len(buffer) :
        \A idx \in Choice(Len(buffer), k) : ENABLED SampleDraws(k, idx)

C4_SampleLeavesBuffer ==
    [][ result'.kind # "none" => (buffer' = buffer /\ capacity' = capacity) ]_vars

---------------------------------------------------------------------------
(* The collaborators of the agent: the environment (gym.Env, DQN.py 198 and *)
(* 210) and the approximator built by nn.create_mlp (DQN.py 132).           *)

\* the action set, 0 .. dims[-1] - 1
Actions == {0, 1}
\* the observations of the environment
EnvStates == {0, 1, 2}
\* env.reset() returns one of these
EnvResetStates == {0, 1}
\* env.step(action) from state s: the next observation and the reward
EnvNextState(s, a) == (s + a + 1) % Cardinality(EnvStates)
EnvReward(s, a) == s + a - 1
\* the environment's max_iter: it reports done at this step at the latest
MaxIters == 3
\* the done flags env.step may report at its step t + 1
EnvDone(t) == IF t + 1 >= MaxIters THEN {TRUE} ELSE BOOLEAN

\* The approximator: the action value of action a in state s under the
\* parameters w. Parameters are named by numbers; this table stands for the
\* network's forward pass.
QOut(w, s, a) == ((w + s) * (a + 1)) % 3
QValues(w, s) == [a \in Actions |-> QOut(w, s, a)]

\* tf.reduce_max(q, axis=-1): the largest action value
ReduceMax(q) == CHOOSE m \in { q[a] : a \in DOMAIN q } : \A a \in DOMAIN q : q[a] <= m
\* tf.argmax(q): the lowest index holding the largest value
ArgMax(q) == CHOOSE a \in DOMAIN q :
                /\ q[a] = ReduceMax(q)
                /\ \A b \in DOMAIN q : q[b] = ReduceMax(q) => a <= b

\* the parameters create_mlp gives the online network
InitialWeights == 0
\* parameters drawn anew by the layers' initializers
FreshWeights == 9
\* tf.keras.models.clone_model(q_net): new layers with newly initialized
\* parameters; the values of q_net's parameters are not copied. The new values
\* are whatever the initializers give, which may or may not equal q_net's.
CloneModel(w) == {FreshWeights, w}

\* optimizer.apply_gradients on q_net.trainable_variables (Adam), as the
\* parameters the optimizer's step number it + 1 may leave: new ones, which the
\* network has not held before, or, when the update is zero (a zero gradient
\* on an optimizer without momentum yet, a learning rate of 0), the ones it
\* found.
ApplyGradients(w, it) == {w, it + 1}

\* A target network that shares its variables with the online network: the
\* optimizer's step moves both.
TargetAfterStep_Shared(target, online_after) == online_after

\* What the optimizer's step on q_net.trainable_variables leaves in q_target:
\* the target's variables are not among those handed to apply_gradients.
TargetAfterStep(target, online_after) == target

\* A copy that leaves the target as it was.
SetWeights_Keeps(target, weights) == target

\* q_target.set_weights(q_net.get_weights()): the values are copied
SetWeights(target, weights) == weights

---------------------------------------------------------------------------
(* DeepQNetwork (DQN.py 89-352) *)

\* largest number of gradient steps in a run of the model
MaxGrad == 3
\* largest number of episodes asked of train
MaxEpisodes == 3

\* gamma in tenths, epsilon and epsilon_decay in hundredths
Config(memory, start_updating, batch_size, descent_frequency, update_frequency, use_target, target_frequency, gamma, eps, eps_decay) ==
    [memory |-> memory, start_updating |-> start_updating, batch_size |-> batch_size,
     descent_frequency |-> descent_frequency, update_frequency |-> update_frequency,
     use_target |-> use_target, target_frequency |-> target_frequency,
     gamma |-> gamma, epsilon_init |-> eps, epsilon_decay |-> eps_decay]

\* The values of epsilon: mant / 100 * 2 ^ (num / den), with num / den in
\* lowest terms and den > 0; zero is written with the exponent 0 / 1.
Abs(x) == IF x < 0 THEN 0 - x ELSE x
RECURSIVE Gcd(_, _)
Gcd(a, b) == IF b = 0 THEN a ELSE Gcd(b, a % b)
RECURSIVE Pow(_, _)
Pow(b, n) == IF n = 0 THEN 1 ELSE b * Pow(b, n - 1)
Scaled(mant, num, den) ==
    IF mant = 0 THEN [mant |-> 0, num |-> 0, den |-> 1]
    ELSE LET g == Gcd(Abs(num), den)
         IN  [mant |-> mant, num |-> num \div g, den |-> den \div g]

\* |a| < |b|, both sides raised to the power a.den * b.den
MagLess(a, b) ==
    LET D  == a.den * b.den
        ea == a.num * b.den
        eb == b.num * a.den
    IN  Pow(Abs(a.mant), D) * Pow(2, IF ea > eb THEN ea - eb ELSE 0)
            < Pow(Abs(b.mant), D) * Pow(2, IF eb > ea THEN eb - ea ELSE 0)

\* a < b, by the signs first
ValLess(a, b) ==
    IF a.mant < 0 /\ b.mant < 0 THEN MagLess(b, a)
    ELSE IF a.mant < 0 \/ b.mant < 0 THEN a.mant < 0
    ELSE MagLess(a, b)

\* The values of epsilon_decay the model takes, in hundredths, and their
\* logarithms to the base 2: 0, 1/4, 1/2, 1 and 2 (the constructor takes any
\* number).
Log2(d) == CASE d = 100 -> 0 [] d = 50 -> -1 [] d = 25 -> -2 [] d = 200 -> 1

\* np.power(base, step / total_steps) for base in hundredths: 1 for the
\* exponent 0 (also when base is 0), 0 for base 0 and a positive exponent
NpPower(base, step, total) ==
    IF step = 0 THEN Scaled(100, 0, 1)
    ELSE IF base = 0 THEN Scaled(0, 0, 1)
    ELSE Scaled(100, Log2(base) * step, total)

\* An annealing rule that multiplies by epsilon_decay once per step.
EpsilonAt_PerStep(c, step, total) ==
    LET p == NpPower(c.epsilon_decay, step, 1)
    IN  Scaled((c.epsilon_init * p.mant) \div 100, p.num, p.den)

\* An annealing rule that divides by the power instead of multiplying.
EpsilonAt_Growing(c, step, total) ==
    LET p == NpPower(c.epsilon_decay, step, total)
    IN  IF p.mant = 0 THEN Scaled(c.epsilon_init, 1, 1)
        ELSE Scaled(c.epsilon_init, 0 - p.num, p.den)

\* lines 272-284: _epsilon(step, total_steps) =
\*     self.epsilon_init * np.power(self.epsilon_decay, step / total_steps)
EpsilonAt(c, step, total) ==
    LET p == NpPower(c.epsilon_decay, step, total)
    IN  Scaled((c.epsilon_init * p.mant) \div 100, p.num, p.den)

\* lines 139-140: self.epsilon_init = epsilon; self.epsilon = epsilon
InitialEpsilon(c) == Scaled(c.epsilon_init, 0, 1)

\* epsilon > 0 and epsilon < 1
EpsilonPositive(eps) == eps.mant > 0
EpsilonBelowOne(eps) == ValLess(eps, Scaled(100, 0, 1))

\* An act that explores in evaluation mode too.
ActOutcomes_IgnoresEvaluation(eps, w, s, evaluation) ==
    (IF EpsilonPositive(eps) THEN Actions ELSE {})
    \cup (IF EpsilonBelowOne(eps) THEN {ArgMax(QValues(w, s))} ELSE {})

\* act(state, evaluation), lines 153-170: the actions it may return.
\* np.random.uniform() is in [0, 1), so the random branch needs epsilon > 0
\* and the greedy one evaluation or epsilon < 1.
ActOutcomes(eps, w, s, evaluation) ==
    (IF ~evaluation /\ EpsilonPositive(eps) THEN Actions ELSE {})
    \cup (IF evaluation \/ EpsilonBelowOne(eps) THEN {ArgMax(QValues(w, s))} ELSE {})

\* lines 41-48: ExperienceReplay(capacity), an empty deque of that maxlen
NewReplay_Unbounded(cap) == [buffer |-> << >>, capacity |-> cap + 1]
NewReplay(cap) == [buffer |-> << >>, capacity |-> cap]

\* The arguments on which the constructor raises: deque(maxlen=capacity)
\* refuses a negative maxlen (ValueError); nothing else is looked at.
ConstructRaises(c) == c.memory < 0

\* DeepQNetwork(...): lines 129-151
AgentInit(configs) ==
    /\ cfg \in configs
    /\ ~ConstructRaises(cfg)
    /\ q_net = InitialWeights
    /\ q_target \in (IF cfg.use_target THEN CloneModel(q_net) ELSE {q_net})
    /\ epsilon = InitialEpsilon(cfg)
    /\ capacity = NewReplay(cfg.memory).capacity
    /\ buffer = NewReplay(cfg.memory).buffer
    /\ appended = << >>
    /\ result = NoResult
    /\ opt_iterations = 0
    /\ online_hist = {q_net}
    /\ disk = [saved |-> FALSE]
    /\ pc = "idle" /\ caller = "api" /\ episode = 0 /\ episodes = 0
    /\ sim = NoSim /\ upd = NoUpd /\ env = NoEnv /\ ep_records = << >>
    /\ last_call = NoCall

\* Sum of the rewards of a sequence of records
RECURSIVE SumRewards(_)
SumRewards(seq) == IF seq = << >> THEN 0 ELSE seq[1].reward + SumRewards(Tail(seq))

\* A record that takes its state after `state = new_state`: the post-step
\* state twice.
MakeRecord_AfterAdvance(state, action, reward, done, new_state) ==
    Experience(new_state, action, reward, done, new_state)

\* line 212: record = Experience(state, action, reward, done, new_state)
MakeRecord(state, action, reward, done, new_state) ==
    Experience(state, action, reward, done, new_state)

\* A loop that also stops at an iteration cap.
LoopCondition_Capped(s) == ~s.done /\ s.iters < 2

\* line 205: while not done
LoopCondition(s) == ~s.done

\* lines 198-203: env.reset() and the locals of simulate
SimBegin(evaluation) ==
    /\ \E s0 \in EnvResetStates :
        /\ env' = [s |-> s0, t |-> 0]
        /\ sim' = [active |-> TRUE, returned |-> FALSE, evaluation |-> evaluation,
                   state |-> s0, done |-> FALSE, iters |-> 0, total_rwd |-> 0,
                   states |-> << >>]
    /\ ep_records' = << >>
    /\ pc' = "sim"

\* simulate(env, evaluation=evaluation), called on the agent; the locals and
\* results of earlier calls are gone
SimulateCall ==
    /\ pc = "idle"
    /\ \E evaluation \in BOOLEAN : SimBegin(evaluation)
    /\ caller' = "api"
    /\ upd' = NoUpd /\ result' = NoResult
    /\ last_call' = Called("simulate", 0)
    /\ UNCHANGED <<buffer, capacity, appended, agentVars, episode, episodes>>

\* lines 205-219: one pass of the loop body
SimStep ==
    /\ pc = "sim"
    /\ LoopCondition(sim)
    /\ \E action \in ActOutcomes(epsilon, q_net, sim.state, sim.evaluation),
          done \in EnvDone(env.t) :
        LET new_state == EnvNextState(env.s, action)
            reward    == EnvReward(env.s, action)
            record    == MakeRecord(sim.state, action, reward, done, new_state)
        IN  /\ env' = [s |-> new_state, t |-> env.t + 1]
            /\ buffer' = DequeAppend(buffer, capacity, record)
            /\ sim' = [sim EXCEPT !.state = new_state,
                                  !.done = done,
                                  !.iters = @ + 1,
                                  !.total_rwd = @ + reward,
                                  !.states = Append(@, new_state)]
            /\ ep_records' = Append(ep_records,
                                    Experience(env.s, action, reward, done, new_state))
    /\ UNCHANGED <<capacity, appended, result, agentVars, pc, caller, episode,
                   episodes, upd, last_call>>

\* line 224: return iters, total_rwd, states
SimReturn ==
    /\ pc = "sim"
    /\ ~LoopCondition(sim)
    /\ sim' = [sim EXCEPT !.active = FALSE, !.returned = TRUE]
    /\ pc' = IF caller = "train" THEN "gate" ELSE "idle"
    /\ UNCHANGED <<replayVars, agentVars, caller, episode, episodes, upd, env,
                   ep_records, last_call>>

\* A regression target that bootstraps terminal transitions too.
BellmanTarget_AlwaysBootstraps(dones, rewards, gamma, next_Q) ==
    [i \in DOMAIN rewards |-> 10 * rewards[i] + gamma * next_Q[i]]

\* lines 259-260: y = np.where(dones, rewards, rewards + gamma * next_Q), in
\* tenths (gamma is in tenths)
BellmanTarget(dones, rewards, gamma, next_Q) ==
    [i \in DOMAIN rewards |->
        IF dones[i] THEN 10 * rewards[i] ELSE 10 * rewards[i] + gamma * next_Q[i]]

\* lines 252-257: the parameters the bootstrap value is read from
BootstrapWeights(c, online, target) == IF c.use_target THEN target ELSE online

\* line 262: tf.reduce_mean(tf.math.square(y - this_Q)), kept as the sum of
\* the squares (in hundredths) and the number of samples
RECURSIVE SumSquares(_, _, _)
SumSquares(y, q, i) ==
    IF i = 0 THEN 0
    ELSE (y[i] - 10 * q[i]) * (y[i] - 10 * q[i]) + SumSquares(y, q, i - 1)
BellmanLoss(y, this_Q) ==
    [bound |-> TRUE, sum |-> SumSquares(y, this_Q, Len(y)), n |-> Len(y)]

\* A copy made in the last iteration of every period instead of the first.
TargetCopyDue_EndOfPeriod(c, updates) ==
    c.use_target /\ updates % c.target_frequency = c.target_frequency - 1

\* line 244: if self.use_target and updates % self.target_frequency == 0
TargetCopyDue(c, updates) == c.use_target /\ updates % c.target_frequency = 0

\* line 244 with target_frequency 0: the modulo raises ZeroDivisionError
TargetCopyRaises(c) == c.use_target /\ c.target_frequency = 0

\* the locals of _update_weights(gamma) at its start
UpdBegin(gamma) ==
    /\ opt_iterations + cfg.descent_frequency <= MaxGrad
    /\ upd' = [NoUpd EXCEPT !.active = TRUE, !.gamma = gamma]
    /\ pc' = "upd_sample"

\* the values of gamma a caller passes to _update_weights, in tenths
Gammas == {9, 10}

\* _update_weights(gamma), called on the agent
UpdateCall ==
    /\ pc = "idle"
    /\ \E gamma \in Gammas : UpdBegin(gamma)
    /\ caller' = "api"
    /\ sim' = NoSim /\ ep_records' = << >> /\ result' = NoResult
    /\ last_call' = Called("_update_weights", 0)
    /\ UNCHANGED <<buffer, capacity, appended, agentVars, episode, episodes, env>>

\* A sample call wrapped in a handler that tries the iteration again.
AfterSample_Retry(r) == IF r.kind = "error" THEN "upd_sample" ELSE "upd_copy"

\* lines 241-242: where control goes after the sample call: nothing catches
\* what it raises
AfterSample(r) == IF r.kind = "error" THEN "raised" ELSE "upd_copy"

\* lines 239-242: the next descent iteration samples a batch; a failure of
\* sample leaves _update_weights at once
UpdSample ==
    /\ pc = "upd_sample"
    /\ upd.updates < cfg.descent_frequency
    /\ \E r \in SampleOutcomes(buffer, cfg.batch_size) :
        /\ result' = r
        /\ pc' = AfterSample(r)
        /\ upd' = IF r.kind = "error" THEN upd ELSE [upd EXCEPT !.drawn = @ + 1]
    /\ UNCHANGED <<buffer, capacity, appended, agentVars, caller, episode, episodes,
                   sim, env, ep_records, last_call>>

\* lines 244-245: the target copy, when due
UpdTarget ==
    /\ pc = "upd_copy"
    /\ IF TargetCopyRaises(cfg)
       THEN pc' = "raised" /\ UNCHANGED <<q_target, upd>>
       ELSE /\ pc' = "upd_descend"
            /\ IF TargetCopyDue(cfg, upd.updates)
               THEN /\ q_target' = SetWeights(q_target, q_net)
                    /\ upd' = [upd EXCEPT !.copied = @ \cup {upd.updates}]
               ELSE UNCHANGED <<q_target, upd>>
    /\ UNCHANGED <<replayVars, cfg, epsilon, q_net, opt_iterations, online_hist, disk,
                   caller, episode, episodes, sim, env, ep_records, last_call>>

\* lines 247-268: the Bellman loss of the batch and one optimizer step
UpdDescend ==
    /\ pc = "upd_descend"
    /\ LET k      == result.k
           this_Q == [i \in 1..k |-> QOut(q_net, result.states[i], result.actions[i])]
           boot   == BootstrapWeights(cfg, q_net, q_target)
           next_Q == [i \in 1..k |-> ReduceMax(QValues(boot, result.next_states[i]))]
           y      == BellmanTarget(result.dones, result.rewards, upd.gamma, next_Q)
       IN  /\ \E after \in ApplyGradients(q_net, opt_iterations) :
                /\ q_net' = after
                /\ q_target' = TargetAfterStep(q_target, after)
                /\ online_hist' = online_hist \cup {after}
           /\ opt_iterations' = opt_iterations + 1
           /\ upd' = [upd EXCEPT !.updates = @ + 1, !.this_Q = this_Q,
                                 !.next_Q = next_Q, !.y = y,
                                 !.loss = BellmanLoss(y, this_Q)]
    /\ pc' = "upd_sample"
    /\ UNCHANGED <<replayVars, cfg, epsilon, disk, caller, episode, episodes, sim,
                   env, ep_records, last_call>>

\* line 270: return loss, once the loop has run descent_frequency times; with
\* no iteration at all loss is unbound and the return raises
UpdReturn ==
    /\ pc = "upd_sample"
    /\ upd.updates >= cfg.descent_frequency
    /\ IF ~upd.loss.bound
       THEN pc' = "raised" /\ UNCHANGED <<upd, episode>>
       ELSE /\ upd' = [upd EXCEPT !.active = FALSE]
            /\ pc' = IF caller = "train" THEN "loop" ELSE "idle"
            /\ episode' = IF caller = "train" THEN episode + 1 ELSE episode
    /\ UNCHANGED <<replayVars, agentVars, caller, episodes, sim, env, ep_records,
                   last_call>>

\* A gate that opens when either condition holds.
GateOpen_Either(len, c, e) == len >= c.start_updating \/ e % c.update_frequency = 0

\* A gate that looks at the episode index only.
GateOpen_FrequencyOnly(len, c, e) == e % c.update_frequency = 0

\* line 312: len(self.replay) >= self.start_updating and
\*           episode % self.update_frequency == 0
GateOpen(len, c, e) == len >= c.start_updating /\ e % c.update_frequency = 0

\* line 312 with update_frequency 0: the modulo, evaluated once the first
\* operand of `and` holds, raises ZeroDivisionError
GateRaises(len, c, e) == len >= c.start_updating /\ c.update_frequency = 0

\* A loop that runs one more pass.
InRange_Inclusive(e, n) == e <= n

\* line 301: for episode in range(episodes): the loop goes on while the next
\* index is below episodes
InRange(e, n) == e < n

\* An annealing that takes epsilon_decay as the rate of one episode.
EpisodeEpsilon_PerEpisode(c, e, n) == EpsilonAt_PerStep(c, e, n)

\* line 304: self.epsilon = self._epsilon(episode, episodes)
EpisodeEpsilon(c, e, n) == EpsilonAt(c, e, n)

\* the values of render_frequency a caller passes to train
RenderFrequencies == {0, 1, 2}

\* line 308: render=(episode % render_frequency == 0) with render_frequency
\* 0: the modulo raises ZeroDivisionError
RenderRaises(render_frequency) == render_frequency = 0

\* train(env, episodes, render_frequency, ...), called on the agent;
\* last_call keeps the argument render_frequency; simulated is history: the
\* indices of the episodes this call has started, in order
TrainCall ==
    /\ pc = "idle"
    /\ \E n \in 0..MaxEpisodes : episodes' = n
    /\ episode' = 0
    /\ caller' = "train"
    /\ pc' = "loop"
    /\ sim' = NoSim /\ upd' = NoUpd /\ ep_records' = << >> /\ result' = NoResult
    /\ \E rf \in RenderFrequencies :
        last_call' = [name |-> "train", trip |-> 0, render_frequency |-> rf,
                      simulated |-> << >>]
    /\ UNCHANGED <<buffer, capacity, appended, agentVars, env>>

\* lines 301-308: the next episode: epsilon is set, then the arguments of
\* simulate are evaluated, which raises for render_frequency 0, then simulate
\* is entered
TrainEpisode ==
    /\ pc = "loop"
    /\ InRange(episode, episodes)
    /\ epsilon' = EpisodeEpsilon(cfg, episode, episodes)
    /\ IF RenderRaises(last_call.render_frequency)
       THEN pc' = "raised" /\ UNCHANGED <<sim, env, ep_records, last_call>>
       ELSE /\ SimBegin(FALSE)
            /\ last_call' = [last_call EXCEPT !.simulated = Append(@, episode)]
    /\ upd' = NoUpd /\ result' = NoResult
    /\ UNCHANGED <<buffer, capacity, appended, cfg, q_net, q_target, opt_iterations,
                   online_hist, disk, caller, episode, episodes>>

\* lines 312-317: after the simulation, update or not
TrainGate ==
    /\ pc = "gate"
    /\ IF GateRaises(Len(buffer), cfg, episode)
       THEN pc' = "raised" /\ UNCHANGED <<episode, upd>>
       ELSE IF GateOpen(Len(buffer), cfg, episode)
       THEN UpdBegin(cfg.gamma) /\ UNCHANGED episode
       ELSE pc' = "loop" /\ episode' = episode + 1 /\ UNCHANGED upd
    /\ UNCHANGED <<replayVars, agentVars, caller, episodes, sim, env, ep_records,
                   last_call>>

\* the loop of train is exhausted: train returns
TrainReturn ==
    /\ pc = "loop"
    /\ ~InRange(episode, episodes)
    /\ pc' = "idle"
    /\ caller' = "api"
    /\ UNCHANGED <<replayVars, agentVars, episode, episodes, sim, upd, env, ep_records,
                   last_call>>

\* line 332: pickle.dump(self.replay, file): the deque is written as its
\* maxlen and its items, oldest first
PickleDump(buf, cap) == [items |-> buf, maxlen |-> cap]

\* line 346: pickle.load(file): a deque of the written maxlen is built and
\* the written items are appended to it one by one
RECURSIVE Refill(_, _, _)
Refill(buf, cap, items) ==
    IF items = << >> THEN buf
    ELSE Refill(DequeAppend(buf, cap, Head(items)), cap, Tail(items))

\* A load that puts every written item in front of those before it.
RECURSIVE Reversed(_)
Reversed(seq) == IF seq = << >> THEN << >> ELSE Append(Reversed(Tail(seq)), Head(seq))
PickleLoad_NewestFirst(blob) ==
    [buffer |-> Reversed(Refill(<< >>, blob.maxlen, blob.items)), capacity |-> blob.maxlen]

PickleLoad(blob) ==
    [buffer |-> Refill(<< >>, blob.maxlen, blob.items), capacity |-> blob.maxlen]

\* lines 319-332: save(path); buffer and capacity are history: the replay
\* buffer as it stood at the save
Save ==
    /\ pc = "idle"
    /\ disk' = [saved |-> TRUE, weights |-> q_net,
                pickled |-> PickleDump(buffer, capacity),
                buffer |-> buffer, capacity |-> capacity]
    /\ sim' = NoSim /\ upd' = NoUpd /\ ep_records' = << >> /\ result' = NoResult
    /\ last_call' = Called("save", 1)
    /\ UNCHANGED <<buffer, capacity, appended, cfg, epsilon, q_net, q_target,
                   opt_iterations, online_hist, pc, caller, episode, episodes, env>>

\* the record in the buffer of another agent
ForeignRecord == Experience(1, 1, 1, TRUE, 0)

\* lines 319-332: save(path) called on another agent, built with a memory of
\* its own, whose buffer is full: its files take the place of those under
\* path, which ends a save, clear_experience, load sequence of this agent
ForeignSave ==
    /\ pc = "idle"
    /\ \E m \in 1..MaxCap :
        LET buf == [i \in 1..m |-> ForeignRecord]
        IN  disk' = [saved |-> TRUE, weights |-> InitialWeights,
                     pickled |-> PickleDump(buf, m),
                     buffer |-> buf, capacity |-> m]
    /\ last_call' = [last_call EXCEPT !.trip = 0]
    /\ UNCHANGED <<replayVars, cfg, epsilon, q_net, q_target, opt_iterations,
                   online_hist, pc, caller, episode, episodes, sim, upd, env,
                   ep_records>>

\* lines 334-346: load(path), of what was saved under path
Load ==
    /\ pc = "idle"
    /\ disk.saved
    /\ q_net' = disk.weights
    /\ online_hist' = online_hist \cup {disk.weights}
    /\ buffer' = PickleLoad(disk.pickled).buffer
    /\ capacity' = PickleLoad(disk.pickled).capacity
    /\ sim' = NoSim /\ upd' = NoUpd /\ ep_records' = << >> /\ result' = NoResult
    /\ last_call' = Called("load", IF last_call.trip = 2 THEN 3 ELSE 0)
    /\ UNCHANGED <<appended, cfg, epsilon, q_target, opt_iterations, disk,
                   pc, caller, episode, episodes, env>>

\* lines 348-352: clear_experience()
ClearExperience ==
    /\ pc = "idle"
    /\ buffer' = NewReplay(cfg.memory).buffer
    /\ capacity' = NewReplay(cfg.memory).capacity
    /\ sim' = NoSim /\ upd' = NoUpd /\ ep_records' = << >> /\ result' = NoResult
    /\ last_call' = Called("clear_experience", IF last_call.trip = 1 THEN 2 ELSE 0)
    /\ UNCHANGED <<appended, agentVars, pc, caller, episode, episodes, env>>

\* An act that anneals epsilon each time it explores.
ActCall_Annealing ==
    /\ pc = "idle"
    /\ \E s \in EnvStates, evaluation \in BOOLEAN :
        \E a \in ActOutcomes(epsilon, q_net, s, evaluation) :
            /\ last_call' = [name |-> "act", trip |-> 0, state |-> s,
                             evaluation |-> evaluation, action |-> a]
            /\ epsilon' = IF evaluation THEN epsilon ELSE Scaled(epsilon.mant \div 2, 0, 1)
    /\ sim' = NoSim /\ upd' = NoUpd /\ ep_records' = << >> /\ result' = NoResult
    /\ UNCHANGED <<buffer, capacity, appended, cfg, q_net, q_target, opt_iterations,
                   online_hist, disk, pc, caller, episode, episodes, env>>

\* lines 153-170: act(state, evaluation), called on the agent; what it
\* returned is kept in last_call
ActCall ==
    /\ pc = "idle"
    /\ \E s \in EnvStates, evaluation \in BOOLEAN :
        \E a \in ActOutcomes(epsilon, q_net, s, evaluation) :
            last_call' = [name |-> "act", trip |-> 0, state |-> s,
                          evaluation |-> evaluation, action |-> a]
    /\ sim' = NoSim /\ upd' = NoUpd /\ ep_records' = << >> /\ result' = NoResult
    /\ UNCHANGED <<buffer, capacity, appended, agentVars, pc, caller, episode,
                   episodes, env>>

\* largest step and total_steps passed to _epsilon called on its own
MaxSteps == 4

\* lines 272-284: _epsilon(step, total_steps), called on the agent; what it
\* returned is kept in last_call
EpsilonCall ==
    /\ pc = "idle"
    /\ \E step \in 0..MaxSteps, total \in 1..MaxSteps :
        last_call' = [name |-> "_epsilon", trip |-> 0, step |-> step, total |-> total,
                      value |-> EpsilonAt(cfg, step, total)]
    /\ sim' = NoSim /\ upd' = NoUpd /\ ep_records' = << >> /\ result' = NoResult
    /\ UNCHANGED <<buffer, capacity, appended, agentVars, pc, caller, episode,
                   episodes, env>>

---------------------------------------------------------------------------
(* The specifications of the agent *)

\* Episodes run on the agent, in both modes.
SimConfigs ==
    { Config(m, 1, 1, 1, 1, FALSE, 1, 10, e, 50) : m \in 1..2, e \in {0, 50} }
SimInit == AgentInit(SimConfigs)
SimNext == SimulateCall \/ SimStep \/ SimReturn
SpecSim == SimInit /\ [][SimNext]_vars
\* simulate runs on one thread: its loop body and its return are taken when
\* they can be
SpecSimFair == SpecSim /\ WF_vars(SimStep) /\ WF_vars(SimReturn)

\* Episodes and updates called on the agent.
UpdateConfigs ==
    { Config(2, 1, b, d, 1, u, t, 10, 0, 50) :
        b \in 1..2, d \in 1..3, u \in BOOLEAN, t \in 1..2 }
UpdateInit == AgentInit(UpdateConfigs)
UpdateNext ==
    \/ SimulateCall \/ SimStep \/ SimReturn
    \/ UpdateCall \/ UpdSample \/ UpdTarget \/ UpdDescend \/ UpdReturn
SpecUpdate == UpdateInit /\ [][UpdateNext]_vars

\* train called on the agent.
TrainConfigs ==
    { Config(m, s, 1, 1, f, TRUE, 1, 10, 50, 50) :
        m \in 1..2, s \in 1..3, f \in 1..2 }
TrainInit == AgentInit(TrainConfigs)
TrainNext ==
    \/ TrainCall \/ TrainEpisode \/ TrainGate \/ TrainReturn
    \/ SimStep \/ SimReturn
    \/ UpdSample \/ UpdTarget \/ UpdDescend \/ UpdReturn
SpecTrain == TrainInit /\ [][TrainNext]_vars

\* train runs on one thread: each of its steps is taken when it can be; the
\* environment reports done within MaxIters steps. Calling train is up to the
\* caller.
TrainFairConfigs ==
    { Config(2, s, 1, 1, f, TRUE, 1, 10, 50, 50) : s \in 1..2, f \in 1..2 }
TrainFairInit == AgentInit(TrainFairConfigs)
SpecTrainFair ==
    /\ TrainFairInit /\ [][TrainNext]_vars
    /\ WF_vars(TrainEpisode) /\ WF_vars(SimStep) /\ WF_vars(SimReturn)
    /\ WF_vars(TrainGate) /\ WF_vars(UpdSample) /\ WF_vars(UpdTarget)
    /\ WF_vars(UpdDescend) /\ WF_vars(UpdReturn) /\ WF_vars(TrainReturn)

\* train called on agents whose batch_size is at most start_updating.
SamplingConfigs ==
    { c \in { Config(m, s, b, d, 1, FALSE, 1, 10, 50, 50) :
                m \in 1..2, s \in 1..3, b \in 0..2, d \in 1..2 } :
        c.batch_size <= c.start_updating }
SamplingInit == AgentInit(SamplingConfigs)
SpecSampling == SamplingInit /\ [][TrainNext]_vars

\* Episodes, updates, saves, loads and resets called on the agent.
LifecycleConfigs ==
    { Config(m, 1, 1, 1, 1, TRUE, 1, 10, 0, 50) : m \in 1..2 }
LifecycleInit == AgentInit(LifecycleConfigs)
LifecycleNext ==
    \/ SimulateCall \/ SimStep \/ SimReturn
    \/ UpdateCall \/ UpdSample \/ UpdTarget \/ UpdDescend \/ UpdReturn
    \/ Save \/ Load \/ ClearExperience
SpecLifecycle == LifecycleInit /\ [][LifecycleNext]_vars

\* Episodes, saves, loads and resets called on an agent that shares its path
\* with agents of other memory sizes.
SharedConfigs ==
    { Config(m, 1, 1, 1, 1, TRUE, 1, 10, 0, 50) : m \in 1..2 }
SharedInit == AgentInit(SharedConfigs)
SharedNext ==
    \/ SimulateCall \/ SimStep \/ SimReturn
    \/ Save \/ Load \/ ClearExperience \/ ForeignSave
SpecShared == SharedInit /\ [][SharedNext]_vars

\* train and act called on agents of every exploration setting the
\* constructor takes: epsilon -1/2, 0, 1/2 and 1, epsilon_decay 0, 1/2, 1
\* and 2.
ExploreConfigs ==
    { Config(2, 1, 1, 1, 1, TRUE, 1, 10, e, d) :
        e \in {-50, 0, 50, 100}, d \in {0, 50, 100, 200} }
ExploreInit == AgentInit(ExploreConfigs)
ExploreNext == TrainNext \/ ActCall
SpecExplore == ExploreInit /\ [][ExploreNext]_vars

\* _epsilon called on its own.
EpsilonConfigs ==
    { Config(1, 1, 1, 1, 1, FALSE, 1, 10, e, d) :
        e \in {-50, 0, 50, 100}, d \in {0, 25, 50, 100, 200} }
EpsilonInit == AgentInit(EpsilonConfigs)
EpsilonNext == EpsilonCall
SpecEpsilon == EpsilonInit /\ [][EpsilonNext]_vars

\* train called on agents built from arguments of every kind: a sound one, a
\* batch larger than start_updating, a batch larger than the buffer, a
\* buffer of no capacity, a negative capacity and frequencies of 0.
AnyConfigs ==
    { Config(2, 1, 1, 1, 1, TRUE, 1, 10, 50, 50),
      Config(2, 1, 2, 2, 1, TRUE, 1, 10, 50, 50),
      Config(1, 1, 2, 1, 1, FALSE, 1, 10, 50, 50),
      Config(0, 0, 1, 1, 1, FALSE, 1, 10, 50, 50),
      Config(-1, 1, 1, 1, 1, FALSE, 1, 10, 50, 50),
      Config(2, 1, 1, 0, 1, FALSE, 1, 10, 50, 50),
      Config(2, 1, 1, 1, 0, FALSE, 1, 10, 50, 50),
      Config(2, 1, 1, 1, 1, TRUE, 0, 10, 50, 50) }
AnyInit == AgentInit(AnyConfigs)
AnyNext == TrainNext
SpecAnyConfig == AnyInit /\ [][AnyNext]_vars

---------------------------------------------------------------------------
(* Claims about _update_weights, checked under SpecUpdate *)

\* the positions inside a descent iteration
UpdPhases == {"upd_sample", "upd_copy", "upd_descend"}

\* C5: in every descent iteration the regression target of each sampled
\* transition is reward when done, else reward + gamma * max_a' Q'(next_state,
\* a'), Q' being the target network if there is one and the online network
\* otherwise; in tenths.
C5_RegressionTarget ==
    [][ pc = "upd_descend" =>
          /\ DOMAIN upd'.y = 1..result.k
          /\ \A i \in 1..result.k :
               LET qp == IF cfg.use_target THEN q_target ELSE q_net
                   s2 == result.next_states[i]
               IN  \E b \in { QOut(qp, s2, a) : a \in Actions } :
                     /\ \A a \in Actions : QOut(qp, s2, a) <= b
                     /\ upd'.y[i] = IF result.dones[i]
                                    THEN 10 * result.rewards[i]
                                    ELSE 10 * result.rewards[i] + upd.gamma * b ]_vars

\* A batch of two with a terminal transition, whose target is its reward, and
\* the example of the specification: gamma 0.9, reward 1, bootstrap 2, not
\* done, target 2.8.
C5_Witness ==
    /\ pc = "upd_sample" /\ upd.active /\ upd.updates >= 1
    /\ upd.gamma = 9
    /\ result.kind = "batch" /\ result.k = 2
    /\ \E i, j \in 1..2 :
        /\ ~result.dones[i] /\ result.rewards[i] = 1
        /\ upd.next_Q[i] = 2 /\ upd.y[i] = 28
        /\ result.dones[j] /\ upd.y[j] = 10 * result.rewards[j]

\* C6: in every state of an agent built with use_target = true, from its
\* construction on, the target parameters are parameters the online network
\* has held before, and no optimizer step is applied to the target.
C6_TargetIsEarlierOnline ==
    /\ [](cfg.use_target => q_target \in online_hist)
    /\ [][ pc = "upd_descend" => q_target' = q_target ]_vars

\* The part of C6 the code keeps: a target copy has been made in every
\* _update_weights before the target is read, and from the first descent
\* iteration on the target holds parameters the online network has held; no
\* optimizer step changes the target.
C6_TargetIsEarlierOnlineOnceCopied ==
    (cfg.use_target /\ (opt_iterations >= 1 \/ pc = "upd_descend"))
        => q_target \in online_hist

C6_NoGradientOnTarget ==
    [][ pc = "upd_descend" => q_target' = q_target ]_vars

\* C7: right after a target copy the target parameters equal the online
\* parameters, so both networks give the same output on every state; the
\* optimizer's step that follows changes the online parameters and leaves the
\* target at the copied values, and nothing but a copy changes the target.
C7_TargetCopyIsASnapshot ==
    /\ [][ (pc = "upd_copy" /\ cfg.use_target
              /\ upd.updates % cfg.target_frequency = 0)
            => /\ q_target' = q_net /\ q_net' = q_net
               /\ \A s \in EnvStates : QValues(q_target', s) = QValues(q_net', s) ]_vars
    /\ [][ (pc = "upd_descend" /\ cfg.use_target)
            => (q_net' # q_net /\ q_target' = q_target) ]_vars
    /\ [][ (cfg.use_target /\ q_target' # q_target)
            => (pc = "upd_copy" /\ upd.updates % cfg.target_frequency = 0) ]_vars

\* C7, as the code has it: right after a target copy the target parameters
\* equal the online parameters, so both networks give the same output on every
\* state; the optimizer's step that follows acts on the online parameters
\* only, which it changes or, when its update is zero, leaves as they are,
\* and in both cases the target stays at the copied values; nothing but a
\* copy changes the target.
C7_TargetStaysAtCopy ==
    /\ [][ (pc = "upd_copy" /\ cfg.use_target
              /\ upd.updates % cfg.target_frequency = 0)
            => /\ q_target' = q_net /\ q_net' = q_net
               /\ \A s \in EnvStates : QValues(q_target', s) = QValues(q_net', s) ]_vars
    /\ [][ (pc = "upd_descend" /\ cfg.use_target)
            => /\ q_target' = q_target
               /\ q_net' \in ApplyGradients(q_net, opt_iterations)
               /\ (q_net' # q_net /\ q_target = q_net) => q_target' # q_net' ]_vars
    /\ [][ (cfg.use_target /\ q_target' # q_target)
            => (pc = "upd_copy" /\ upd.updates % cfg.target_frequency = 0) ]_vars

\* After a copy and two optimizer steps without another copy: the target
\* still holds the copied parameters, the online network has moved on.
C7_Witness ==
    /\ cfg.use_target /\ cfg.target_frequency = 2
    /\ pc = "upd_sample" /\ upd.active /\ upd.updates = 2
    /\ q_target \in online_hist
    /\ q_target = q_net - 2

---------------------------------------------------------------------------
(* Claims about train, checked under SpecTrain *)

\* C8: in train, _update_weights is run after the simulation of episode e
\* exactly when the buffer length after that simulation is >= start_updating
\* and e mod update_frequency = 0; in every other episode nothing is
\* sampled, no optimizer step is taken and no target copy is made.
C8_UpdateGate ==
    /\ [][ pc = "gate" =>
             ( (pc' = "upd_sample" /\ upd'.active /\ upd'.updates = 0
                  /\ episode' = episode)
               <=> (Len(buffer) >= cfg.start_updating
                      /\ episode % cfg.update_frequency = 0) ) ]_vars
    /\ [][ pc = "gate" =>
             ( (pc' = "loop" /\ episode' = episode + 1 /\ ~upd'.active)
               <=> ~(Len(buffer) >= cfg.start_updating
                       /\ episode % cfg.update_frequency = 0) ) ]_vars
    /\ [][ (caller = "train"
              /\ (\/ q_net' # q_net
                  \/ q_target' # q_target
                  \/ opt_iterations' # opt_iterations
                  \/ (result' # result /\ result'.kind # "none")))
            => /\ pc \in UpdPhases
               /\ Len(buffer) >= cfg.start_updating
               /\ episode % cfg.update_frequency = 0 ]_vars

\* The update of episode 2 under update_frequency 2 and start_updating 2:
\* episode 0 left the buffer too short, episode 1 is no multiple of 2.
C8_Witness ==
    /\ caller = "train" /\ pc = "upd_sample" /\ upd.active
    /\ episode = 2 /\ cfg.update_frequency = 2 /\ cfg.start_updating = 2
    /\ opt_iterations = 0
    /\ Len(buffer) >= cfg.start_updating

---------------------------------------------------------------------------
(* Claims about simulate, checked under SpecSim and SpecSimFair *)

\* the last n elements of a sequence
LastN(seq, n) == SubSeq(seq, Len(seq) - n + 1, Len(seq))

\* C9: simulate appends exactly one record per environment step, in both
\* modes, built from the pre-step state, the action, the reward, the done
\* flag and the post-step state; iters is the number of steps, total_reward
\* the sum of the step rewards, the trajectory has iters states (the post-step
\* ones), and the newest min(iters, C) records of the buffer are the
\* episode's transitions in step order.
C9_SimulateRecords ==
    /\ []( (sim.active \/ sim.returned) =>
             /\ sim.iters = Len(ep_records)
             /\ sim.iters = env.t
             /\ sim.total_rwd = SumRewards(ep_records)
             /\ Len(sim.states) = sim.iters
             /\ \A i \in 1..sim.iters : sim.states[i] = ep_records[i].new_state
             /\ Min(sim.iters, capacity) <= Len(buffer)
             /\ LastN(buffer, Min(sim.iters, capacity))
                  = LastN(ep_records, Min(sim.iters, capacity)) )
    /\ [][ env'.t = env.t + 1 =>
             /\ Len(buffer') = Min(Len(buffer) + 1, capacity)
             /\ buffer'[Len(buffer')] = ep_records'[Len(ep_records')]
             /\ LastN(buffer, Len(buffer') - 1)
                  = SubSeq(buffer', 1, Len(buffer') - 1) ]_vars

\* An evaluation episode of three steps on a buffer of capacity 2, returned.
C9_Witness ==
    /\ sim.returned /\ sim.evaluation
    /\ sim.iters = 3 /\ capacity = 2
    /\ Len(buffer) = 2

\* C10: simulate stops exactly at the first step that reports done: it takes
\* at least one step and none after a done step, every record it appends but
\* the last has done = false and the last has done = true; once the
\* environment has reported done simulate returns, and it returns in no other
\* way.
C10_StopsAtFirstDone ==
    /\ []( (sim.active \/ sim.returned) =>
             /\ \A i \in 1..(sim.iters - 1) : ~ep_records[i].done
             /\ \A i \in 1..Min(sim.iters, capacity) :
                  LastN(buffer, Min(sim.iters, capacity))[i].done
                    = (sim.done /\ i = Min(sim.iters, capacity)) )
    /\ []( sim.returned =>
             /\ sim.iters >= 1
             /\ ep_records[sim.iters].done
             /\ sim.done )
    /\ []( (sim.active /\ sim.iters >= 1 /\ ep_records[sim.iters].done)
             => ENABLED SimReturn /\ ~ENABLED SimStep )
    /\ [][ env'.t = env.t + 1 => (~sim.done /\ (sim.iters = 0 \/ ~ep_records[sim.iters].done)) ]_vars
    /\ ((pc = "sim") ~> sim.returned)

\* An episode that returned at its second step, one step before the
\* environment's own limit.
C10_Witness ==
    /\ sim.returned /\ sim.iters = 2
    /\ ~ep_records[1].done /\ ep_records[2].done
    /\ buffer[Len(buffer)].done

---------------------------------------------------------------------------
(* Claims about act, checked under SpecExplore *)

\* C11: act(state, evaluation=True) is deterministic for every value of
\* epsilon, 1 included: it has one possible result, the lowest index at which
\* the online network's action values for the state are maximal.
C11_EvaluationActIsGreedy ==
    /\ \A s \in EnvStates : Cardinality(ActOutcomes(epsilon, q_net, s, TRUE)) = 1
    /\ (last_call.name = "act" /\ last_call.evaluation) =>
           LET q == QValues(q_net, last_call.state)
               a == last_call.action
           IN  /\ \A b \in Actions : q[b] <= q[a]
               /\ \A b \in Actions : q[b] = q[a] => a <= b

\* act in evaluation mode with epsilon = 1, on trained parameters and a state
\* whose two action values are equal: the lower index came back.
C11_Witness ==
    /\ last_call.name = "act" /\ last_call.evaluation
    /\ epsilon = Scaled(100, 0, 1)
    /\ q_net # InitialWeights
    /\ QOut(q_net, last_call.state, 0) = QOut(q_net, last_call.state, 1)
    /\ last_call.action = 0

---------------------------------------------------------------------------
(* Claims about epsilon, checked under SpecExplore and SpecEpsilon *)

\* C12: 0 <= epsilon <= epsilon_init in every state of the agent: after
\* construction and after train has set epsilon for any episode.
C12_EpsilonWithinBounds ==
    /\ epsilon.mant >= 0
    /\ ~ValLess(InitialEpsilon(cfg), epsilon)

\* The part of C12 the code keeps: for an epsilon_init that is not negative
\* and an epsilon_decay between 0 and 1, 0 <= epsilon <= epsilon_init in every
\* state of the agent.
C12_EpsilonWithinBoundsOfFractions ==
    (cfg.epsilon_init >= 0 /\ cfg.epsilon_decay \in 0..100) =>
        /\ epsilon.mant >= 0
        /\ ~ValLess(InitialEpsilon(cfg), epsilon)

\* The third episode of a train call, with epsilon strictly between 0 and
\* epsilon_init.
C12_Witness ==
    /\ caller = "train" /\ pc = "sim" /\ episode = 2
    /\ epsilon.mant > 0
    /\ ValLess(epsilon, InitialEpsilon(cfg))

\* a value of epsilon with a whole exponent, in ten-thousandths
TenThousandths(v) ==
    IF v.num >= 0 THEN 100 * v.mant * Pow(2, v.num)
    ELSE (100 * v.mant) \div Pow(2, 0 - v.num)

\* C13: _epsilon(0, N) = epsilon_init and _epsilon(N, N) = epsilon_init *
\* epsilon_decay for every N > 0: epsilon_decay is the fraction reached at the
\* last step.
C13_EpsilonEndpoints ==
    last_call.name = "_epsilon" =>
        /\ last_call.step = 0 =>
              /\ last_call.value.den = 1
              /\ TenThousandths(last_call.value) = 100 * cfg.epsilon_init
        /\ last_call.step = last_call.total =>
              /\ last_call.value.den = 1
              /\ TenThousandths(last_call.value) = cfg.epsilon_init * cfg.epsilon_decay

\* _epsilon(3, 3) with epsilon_init = 1/2 and epsilon_decay = 1/2 gave 1/4.
C13_Witness ==
    /\ last_call.name = "_epsilon"
    /\ last_call.step = 3 /\ last_call.total = 3
    /\ cfg.epsilon_init = 50 /\ cfg.epsilon_decay = 50
    /\ TenThousandths(last_call.value) = 2500

---------------------------------------------------------------------------
(* Claims about save, load and clear_experience, checked under SpecLifecycle *)

\* C14: after save(p); clear_experience(); load(p) the replay buffer has the
\* length and the contents, in order, it had right before the save; a load
\* puts the saved buffer in place of whatever the agent held in memory.
C14_SaveClearLoadRestores ==
    /\ [](last_call.name = "save" => disk.buffer = buffer /\ disk.capacity = capacity)
    /\ [](last_call.name = "load" =>
            /\ Len(buffer) = Len(disk.buffer)
            /\ buffer = disk.buffer
            /\ capacity = disk.capacity)
    /\ [][last_call'.name = "load" => buffer' = disk.buffer]_vars

\* save, clear_experience and load in a row on a full buffer of two different
\* records and trained parameters.
C14_Witness ==
    /\ last_call.name = "load" /\ last_call.trip = 3
    /\ Len(buffer) = 2 /\ buffer[1] # buffer[2]
    /\ q_net # InitialWeights

\* C16: clear_experience leaves an empty buffer whose capacity is the
\* configured memory, whatever the buffer held, and changes neither epsilon
\* nor the online or target parameters.
C16_ClearExperience ==
    /\ [](last_call.name = "clear_experience" =>
            /\ buffer = << >>
            /\ capacity = cfg.memory)
    /\ [][last_call'.name = "clear_experience" =>
            /\ epsilon' = epsilon
            /\ q_net' = q_net
            /\ q_target' = q_target]_vars

\* clear_experience right after a save that found two records in the buffer,
\* on trained parameters.
C16_Witness ==
    /\ last_call.name = "clear_experience" /\ last_call.trip = 2
    /\ Len(disk.buffer) = 2
    /\ q_net # InitialWeights
    /\ buffer = << >>

---------------------------------------------------------------------------
(* Claims about construction and failures, checked under SpecAnyConfig *)

\* the arguments the specification takes to be in range
ValidConfig(c) ==
    /\ c.memory >= 1
    /\ c.batch_size >= 1 /\ c.batch_size <= c.memory
    /\ c.descent_frequency >= 1
    /\ c.update_frequency >= 1
    /\ c.target_frequency >= 1

\* C15: an agent whose capacity is below 1, whose batch_size is above its
\* capacity or whose frequencies are out of range is refused at construction,
\* so no such agent is ever inside simulate, train or _update_weights.
C15_InvalidConfigsNeverRun ==
    pc \in {"loop", "sim", "gate", "upd_sample", "upd_copy", "upd_descend"}
        => ValidConfig(cfg)

\* What the constructor does refuse: a negative capacity.
C15_NegativeCapacityRefused == cfg.memory >= 0

\* C18: a sampling failure inside _update_weights during train is neither
\* caught nor retried: the step in which sample fails leaves the update at
\* once with nothing changed, and after it train runs no further descent
\* iteration, simulates no further episode and does not return.
C18_SamplingFailurePropagates ==
    /\ [][ (pc = "upd_sample" /\ result'.kind = "error") =>
             /\ pc' = "raised"
             /\ UNCHANGED <<buffer, agentVars, upd, episode>> ]_vars
    /\ []( (pc = "raised" /\ result.kind = "error") =>
             ~ENABLED (UpdSample \/ UpdTarget \/ UpdDescend \/ UpdReturn
                       \/ TrainGate \/ TrainEpisode \/ SimStep \/ SimReturn
                       \/ TrainReturn) )
    /\ [][ (pc = "raised" /\ result.kind = "error") => pc' = "raised" ]_vars

\* train stopped by a failed sample in the first of two descent iterations of
\* the update after its first episode, with episodes still to run.
C18_Witness ==
    /\ pc = "raised" /\ result.kind = "error" /\ caller = "train"
    /\ upd.updates = 0 /\ cfg.descent_frequency = 2
    /\ episode = 0 /\ episodes = 3
    /\ Len(buffer) = 1 /\ cfg.batch_size = 2

---------------------------------------------------------------------------
(* Claims about act and _update_weights, checked under SpecExplore and *)
(* SpecUpdate                                                          *)

\* C17: a call of act, in either mode, leaves the replay buffer, epsilon, the
\* online parameters and the target parameters as they were.
C17_ActHasNoSideEffects ==
    [][ last_call'.name = "act" =>
          /\ buffer' = buffer /\ capacity' = capacity
          /\ epsilon' = epsilon
          /\ q_net' = q_net
          /\ q_target' = q_target ]_vars

\* act in training mode that explored (it returned another action than the
\* greedy one), on a non-empty buffer, trained parameters and an epsilon
\* strictly between 0 and 1.
C17_Witness ==
    /\ last_call.name = "act" /\ ~last_call.evaluation
    /\ last_call.action # ArgMax(QValues(q_net, last_call.state))
    /\ Len(buffer) = 2 /\ q_net # InitialWeights
    /\ EpsilonPositive(epsilon) /\ EpsilonBelowOne(epsilon)

\* the iterations of 0 .. n - 1 in which the target copy is due
CopyIterations(c, n) == { i \in 0..(n - 1) : c.use_target /\ i % c.target_frequency = 0 }

\* C19: one call of _update_weights runs exactly descent_frequency
\* iterations, each drawing one batch and applying one gradient step; with a
\* target network the copy is made in iteration i exactly when
\* i mod target_frequency = 0, so in the first iteration of every call,
\* before any bootstrap value is read.
C19_DescentIterations ==
    /\ []( upd.active =>
             LET begun == upd.updates
                            + (IF pc \in {"upd_copy", "upd_descend"} THEN 1 ELSE 0)
                 past  == upd.updates + (IF pc = "upd_descend" THEN 1 ELSE 0)
             IN  /\ upd.updates <= cfg.descent_frequency
                 /\ upd.drawn = begun
                 /\ upd.copied = CopyIterations(cfg, past) )
    /\ []( (~upd.active /\ upd.loss.bound) =>
             /\ upd.updates = cfg.descent_frequency
             /\ upd.drawn = cfg.descent_frequency
             /\ upd.copied = CopyIterations(cfg, cfg.descent_frequency) )
    /\ []( (pc = "upd_descend" /\ cfg.use_target) => 0 \in upd.copied )
    /\ [][ (upd.active /\ upd'.updates # upd.updates) =>
             /\ upd'.updates = upd.updates + 1
             /\ opt_iterations' = opt_iterations + 1
             /\ q_net' \in ApplyGradients(q_net, opt_iterations) ]_vars
    /\ [][ (upd.active /\ opt_iterations' # opt_iterations) =>
             upd'.updates = upd.updates + 1 ]_vars

\* A call of three iterations with target_frequency 2 that returned: three
\* batches drawn, three gradient steps, copies in the iterations 0 and 2.
C19_Witness ==
    /\ ~upd.active /\ upd.loss.bound
    /\ cfg.descent_frequency = 3 /\ cfg.use_target /\ cfg.target_frequency = 2
    /\ upd.updates = 3 /\ upd.drawn = 3 /\ upd.copied = {0, 2}
    /\ opt_iterations = 3

\* C20: an agent without a target network and an agent with one and
\* target_frequency 1 compute, in every descent iteration, the same bootstrap
\* values, regression targets and next online parameters from the same online
\* parameters and the same batch: the bootstrap is read from the current
\* online parameters in both.
C20_NoTargetIsTargetEveryIteration ==
    [][ (pc = "upd_descend" /\ (~cfg.use_target \/ cfg.target_frequency = 1)) =>
          LET next_Q == [i \in 1..result.k |->
                            ReduceMax(QValues(q_net, result.next_states[i]))]
              y      == BellmanTarget(result.dones, result.rewards, upd.gamma, next_Q)
          IN  /\ upd'.next_Q = next_Q
              /\ upd'.y = y
              /\ q_net' \in ApplyGradients(q_net, opt_iterations) ]_vars

\* The second iteration of a call on an agent with a target network and
\* target_frequency 1 is over; its batch held a transition that is not
\* terminal and has a bootstrap value other than 0.
C20_Witness ==
    /\ cfg.use_target /\ cfg.target_frequency = 1
    /\ pc = "upd_sample" /\ upd.updates = 2 /\ q_net # InitialWeights
    /\ \E i \in 1..result.k : ~result.dones[i] /\ upd.next_Q[i] # 0

---------------------------------------------------------------------------
(* Claims about train, checked under SpecExplore and SpecTrainFair *)

\* the positions of train inside an episode and the update after it
EpisodePhases == {"sim", "gate", "upd_sample", "upd_copy", "upd_descend"}

\* C21: in train epsilon is set once per episode, at the episode's start and
\* before its first action, to _epsilon(e, episodes) for the episode index e;
\* neither the episode's steps nor the update after it change it, so every
\* act of episode e sees that value. (An episode whose simulate call is not
\* reached, render_frequency being 0, has its epsilon set all the same.)
C21_EpsilonSetOncePerEpisode ==
    /\ []( (caller = "train" /\ pc \in EpisodePhases) =>
             epsilon = EpsilonAt(cfg, episode, episodes) )
    /\ [][ (caller = "train" /\ pc = "loop" /\ pc' = "sim") =>
             /\ epsilon' = EpsilonAt(cfg, episode, episodes)
             /\ sim'.iters = 0 /\ episode' = episode ]_vars
    /\ [][ (caller = "train" /\ pc = "loop" /\ pc' = "raised") =>
             epsilon' = EpsilonAt(cfg, episode, episodes) ]_vars
    /\ [][ (caller = "train" /\ epsilon' # epsilon) =>
             (pc = "loop" /\ pc' \in {"sim", "raised"}) ]_vars
    /\ [][ (caller = "train" /\ pc \in EpisodePhases) => epsilon' = epsilon ]_vars

\* The update after the second of three episodes, which took two steps: epsilon
\* is the annealed value of that episode, strictly between 0 and epsilon_init
\* and other than the value of the first episode.
C21_Witness ==
    /\ caller = "train" /\ pc = "upd_descend"
    /\ episode = 1 /\ episodes = 3 /\ sim.iters = 2
    /\ epsilon = EpsilonAt(cfg, 1, 3)
    /\ epsilon # InitialEpsilon(cfg)
    /\ EpsilonPositive(epsilon)

\* the episode indices 0 .. k - 1 in increasing order
Indices(k) == [i \in 1..k |-> i - 1]

\* the gradient steps left in the run of the model are enough for an update
\* after every episode still to come
TrainCanFinish ==
    opt_iterations + (episodes - episode) * cfg.descent_frequency <= MaxGrad

\* the episodes of a train call are in order, none twice, none beyond
\* `episodes`, and a call that returned has started them all
TrainEpisodesInOrder ==
    /\ last_call.name = "train" =>
          /\ last_call.simulated = Indices(Len(last_call.simulated))
          /\ Len(last_call.simulated) <= episodes
          /\ (caller = "train" /\ pc = "loop") => Len(last_call.simulated) = episode
          /\ (caller = "train" /\ pc \in EpisodePhases) =>
                 Len(last_call.simulated) = episode + 1
    /\ (last_call.name = "train" /\ caller = "api") =>
          /\ pc = "idle"
          /\ last_call.simulated = Indices(episodes)

\* The part of C22 the code keeps: the order and the count of the episodes,
\* whatever the arguments, and the return of train after the last episode
\* when render_frequency is not 0.
C22_TrainRunsEveryEpisodeWhenRendering ==
    /\ []TrainEpisodesInOrder
    /\ ( (caller = "train" /\ pc = "loop" /\ episode = 0 /\ TrainCanFinish
            /\ ~RenderRaises(last_call.render_frequency))
           ~> (last_call.name = "train" /\ caller = "api" /\ pc = "idle") )

\* C22: with episodes that all end and updates that do not fail,
\* train(env, episodes, ...) simulates the episodes 0 .. episodes - 1, each
\* once and in increasing order, and then returns: it has started exactly
\* `episodes` episodes when it returns, and it does return, never stopping
\* earlier.
C22_TrainRunsEveryEpisode ==
    /\ []( last_call.name = "train" =>
             /\ last_call.simulated = Indices(Len(last_call.simulated))
             /\ Len(last_call.simulated) <= episodes
             /\ (caller = "train" /\ pc = "loop") => Len(last_call.simulated) = episode
             /\ (caller = "train" /\ pc \in EpisodePhases) =>
                    Len(last_call.simulated) = episode + 1 )
    /\ []( (last_call.name = "train" /\ caller = "api") =>
             /\ pc = "idle"
             /\ last_call.simulated = Indices(episodes) )
    /\ ( (caller = "train" /\ pc = "loop" /\ episode = 0 /\ TrainCanFinish)
           ~> (last_call.name = "train" /\ caller = "api" /\ pc = "idle") )

\* train(env, 3) has returned after three episodes, each followed by an
\* update.
C22_Witness ==
    /\ last_call.name = "train" /\ caller = "api" /\ pc = "idle"
    /\ episodes = 3 /\ last_call.simulated = <<0, 1, 2>>
    /\ opt_iterations = 3

---------------------------------------------------------------------------
(* Claims about the buffer of an agent, checked under SpecShared, *)
(* SpecLifecycle and SpecSampling                                  *)

\* C23: after any sequence of simulate, save, load and clear_experience calls
\* the capacity of the replay buffer is the agent's configured memory and its
\* length is at most that memory, also after the load of a save made by an
\* agent with another memory.
C23_CapacityIsMemory ==
    /\ capacity = cfg.memory
    /\ Len(buffer) <= cfg.memory

\* What holds whatever was loaded: the buffer is never longer than its own
\* capacity.
C23_LengthWithinCapacity == Len(buffer) <= capacity

\* What holds of an agent that only loads its own saves (SpecLifecycle): the
\* capacity stays the configured memory.
C23_OwnSavesKeepCapacity ==
    /\ disk.saved => disk.capacity = cfg.memory
    /\ capacity = cfg.memory /\ Len(buffer) <= cfg.memory

\* C24: when batch_size <= start_updating no run of train fails on sampling:
\* every sample(batch_size) call of every _update_weights that train makes
\* finds at least batch_size records, the buffer being the same from the gate
\* test to the last descent iteration.
C24_TrainNeverFailsOnSampling ==
    /\ []( (caller = "train" /\ pc \in UpdPhases) => Len(buffer) >= cfg.batch_size )
    /\ []( caller = "train" => result.kind # "error" )
    /\ [][ (caller = "train" /\ pc \in {"gate"} \cup UpdPhases) =>
             buffer' = buffer ]_vars

\* The part of C24 the code keeps: with 1 <= batch_size <= start_updating no
\* sample call of train fails, and for every batch_size the buffer is as
\* long as the gate found it through the whole update.
C24_NonEmptyBatchesNeverFail ==
    /\ []( (caller = "train" /\ pc \in UpdPhases) => Len(buffer) >= cfg.batch_size )
    /\ []( (caller = "train" /\ cfg.batch_size >= 1) => result.kind # "error" )
    /\ [][ (caller = "train" /\ pc \in {"gate"} \cup UpdPhases) =>
             buffer' = buffer ]_vars

\* The second descent iteration of an update in train has its batch of two,
\* drawn from a buffer that holds exactly start_updating = batch_size = 2
\* records.
C24_Witness ==
    /\ caller = "train" /\ pc = "upd_descend" /\ upd.updates = 1
    /\ cfg.batch_size = 2 /\ cfg.start_updating = 2 /\ cfg.descent_frequency = 2
    /\ Len(buffer) = 2
    /\ result.kind = "batch" /\ result.k = 2

=============================================================================
